---------------------------- MODULE Spec2Model ----------------------------
(***************************************************************************)
(* Fast Medical Report Search (app.py): a Streamlit script over a Whoosh   *)
(* index directory ("whoosh_index") and a raw-file directory               *)
(* ("uploaded_reports").                                                   *)
(*                                                                         *)
(* Every browser session re-runs the script top to bottom on each click:   *)
(* ensure_index() (line 123), then the one handler whose button was        *)
(* pressed (index form, rebuild, search), then the listing of indexed      *)
(* documents.  Sessions run as threads of one server process and share     *)
(* the two directories; nothing in app.py serialises them.  The model      *)
(* keeps the directories as shared state and each session's position in    *)
(* the script as pc[s].                                                    *)
(*                                                                         *)
(* Strings are modelled as follows.  A text (title, content, query) is a   *)
(* sequence of symbols, each a word or the blank SP.  A patient id and a   *)
(* file name are single symbols.  A date is a day number.  An optional     *)
(* date is <<>> (None) or <<d>>.                                           *)
(***************************************************************************)
EXTENDS Integers, Sequences, FiniteSets, TLC

\* ------------------------------------------------------------------ bounds
\* Last value of the clock datetime.utcnow() reads (values 0..MaxClock).
MaxClock == 1
\* Files in one submission of the upload form.
MaxBatch == 2
\* Documents the index holds before further submissions are cut off.
MaxDocs == 2
\* Clicks (runs of the script) over all sessions.
MaxClicks == 2
\* Documents of a corpus drawn for the search specifications.
MaxCorpus == 2
\* Largest value of the "Number of results" slider taken by the model.
MaxLimit == 2
\* Last day the date widgets offer here (the first is FirstDay).
LastDay == 3

\* ------------------------------------------------------- program constants
\* datetime.date(1900,1,1), the date the search form reads as "no from date".
SentinelDay == 0
\* First day the date widgets offer: Streamlit's date_input, given no
\* min_value, starts ten years before today, far after 1900-01-01.
FirstDay == 2

Sessions == {1, 2}
Days == FirstDay..LastDay
None == <<>>
Some(d) == <<d>>

\* -------------------------------------------------------------------- text
SP == " "
Words == {"Fractures", "fracture", "the", "glucose", "P1"}

\* str.lower() on one symbol.
Lower(w) ==
  CASE w = "Fractures" -> "fractures"
    [] w = "P1" -> "p1"
    [] w = "P2" -> "p2"
    [] OTHER -> w

\* The Porter stemmer of StemmingAnalyzer on one lower-cased word.
Stem(w) ==
  CASE w = "fractures" -> "fractur"
    [] w = "fracture" -> "fractur"
    [] w = "glucose" -> "glucos"
    [] OTHER -> w

\* StopFilter of StemmingAnalyzer: the words it drops.
StopWords == {"the"}

\* RegexTokenizer / the query parser's split on whitespace.
Tokens(text) == SelectSeq(text, LAMBDA c : c # SP)

\* StemmingAnalyzer: tokenize, lower-case, drop stop words, stem.
Analyze(text) ==
  LET toks == Tokens(text)
      low == [i \in 1..Len(toks) |-> Lower(toks[i])]
      kept == SelectSeq(low, LAMBDA w : w \notin StopWords)
  IN  [i \in 1..Len(kept) |-> Stem(kept[i])]

\* str.strip(): leading and trailing blanks removed.
RECURSIVE LStrip(_)
LStrip(text) ==
  IF text # <<>> /\ Head(text) = SP THEN LStrip(Tail(text)) ELSE text

RECURSIVE RStrip(_)
RStrip(text) ==
  IF text # <<>> /\ text[Len(text)] = SP
  THEN RStrip(SubSeq(text, 1, Len(text) - 1))
  ELSE text

Strip(text) == RStrip(LStrip(text))

Range(f) == {f[i] : i \in DOMAIN f}

\* ------------------------------------------------------------------ search
\* A parser that is not given the title field.
SearchFieldsNoTitle == {"content", "patient_id"}

\* The fields MultifieldParser is given (line 207).
SearchFields == {"title", "content", "patient_id"}

\* The terms the schema (lines 54-60) indexes for a field of a document:
\* title and content through StemmingAnalyzer, patient_id (an ID field) as
\* the one unanalysed value.
FieldTerms(d, f) ==
  CASE f = "title" -> Range(Analyze(d.title))
    [] f = "content" -> Range(Analyze(d.content))
    [] f = "patient_id" -> {d.patient_id}

\* The terms one query word becomes in a field: analysed for the TEXT
\* fields, verbatim for the ID field.
QueryTerms(w, f) ==
  IF f = "patient_id" THEN {w} ELSE Range(Analyze(<<w>>))

\* parser.parse(query_text) with group=OrGroup (lines 207-208): the
\* (field, term) disjuncts, one per query word and field.
Parse(query_text) ==
  UNION {{<<f, t>> : t \in QueryTerms(w, f)} :
           w \in Range(Tokens(query_text)), f \in SearchFields}

\* A document matches when any disjunct's term is indexed in its field.
Matches(q, d) == \E p \in q : p[2] \in FieldTerms(d, p[1])

\* The document numbers matching q in a committed corpus.
Matching(q, docs) == {n \in 1..Len(docs) : Matches(q, docs[n])}

Perms(S) ==
  {p \in [1..Cardinality(S) -> S] : \A i, j \in DOMAIN p : i # j => p[i] # p[j]}

Min(a, b) == IF a < b THEN a ELSE b

\* searcher.search(q, limit=k), line 209: the k best matching documents,
\* best first.  Whoosh's BM25F weighting is library code; the order among
\* the matching documents is left open here, so what is checked holds for
\* whatever order the scorer produces.
SearchResults(q, k, docs) ==
  {SubSeq(p, 1, Min(k, Len(p))) : p \in Perms(Matching(q, docs))}

\* A loop body that compares patient ids as they are written.
KeepHitCaseSensitive(d, pid_filter, date_from, date_to) ==
  /\ ~(pid_filter # "" /\ d.patient_id # pid_filter)
  /\ ~(date_from # None /\ d.date < date_from[1])
  /\ ~(date_to # None /\ d.date > date_to[1])

\* A loop body whose date bounds are exclusive.
KeepHitExclusive(d, pid_filter, date_from, date_to) ==
  /\ ~(pid_filter # "" /\ Lower(d.patient_id) # Lower(pid_filter))
  /\ ~(date_from # None /\ d.date <= date_from[1])
  /\ ~(date_to # None /\ d.date >= date_to[1])

\* The post-filter loop's body (lines 217-228): TRUE when the hit is kept.
KeepHit(d, pid_filter, date_from, date_to) ==
  /\ ~(pid_filter # "" /\ Lower(d.patient_id) # Lower(pid_filter))
  /\ ~(date_from # None /\ d.date < date_from[1])
  /\ ~(date_to # None /\ d.date > date_to[1])

\* The post-filter loop (lines 211-228) over the ranked hits.
RECURSIVE PostFilter(_, _, _, _, _)
PostFilter(hits, docs, pid_filter, date_from, date_to) ==
  IF hits = <<>> THEN <<>>
  ELSE LET rest == PostFilter(Tail(hits), docs, pid_filter, date_from, date_to)
       IN  IF KeepHit(docs[Head(hits)], pid_filter, date_from, date_to)
           THEN <<Head(hits)>> \o rest
           ELSE rest

\* Lines 200-201: the sentinel date is read as no lower bound.
FromDate(date_from) ==
  IF date_from = Some(SentinelDay) THEN None ELSE date_from


\* ------------------------------------------------------------------- state
VARIABLES
  dirExists,   \* os.path.exists(INDEX_DIR)
  toc,         \* the index files in INDEX_DIR: "none", "ok" or "corrupt"
  committed,   \* the documents of the last commit, in document-number order
  lockFile,    \* the writer lock file exists in INDEX_DIR
  lockHeld,    \* some writer holds the lock on the present lock file
  tmpDir,      \* a writer's temporary storage (a subdirectory) exists
  rawFiles,    \* uploaded_reports: a set of [name, raw]
  clock,       \* what datetime.utcnow() returned last
  pc,          \* each session's place in the script
  req,         \* each session's widget values for the run
  caller,      \* who called ensure_index: "main" (line 123) or "rebuild"
  idx,         \* the upload loop's position
  writer,      \* each session's IndexWriter
  listed,      \* the os.listdir result a removal loop walks
  outcome,     \* how the run ended: "none", "ok", "warning", "error"
  raisedAt,    \* where the run's uncaught exception was raised
  hits,        \* the search handler's results and filtered list
  clicks       \* runs of the script started so far

fs == <<dirExists, toc, committed, lockFile, lockHeld, tmpDir>>
local == <<pc, req, caller, idx, writer, listed, outcome, raisedAt, hits, clicks>>
vars == <<dirExists, toc, committed, lockFile, lockHeld, tmpDir, rawFiles,
          clock, pc, req, caller, idx, writer, listed, outcome, raisedAt, hits,
          clicks>>

\* What a searcher opened now would read.
Visible == IF dirExists /\ toc = "ok" THEN committed ELSE <<>>

ClosedWriter ==
  [open |-> FALSE, base |-> <<>>, pending |-> <<>>, lockCurrent |-> FALSE,
   baseGone |-> FALSE, addFailed |-> FALSE]

NoHits == [docs |-> <<>>, results |-> <<>>, filtered |-> <<>>]

NoReq ==
  [kind |-> "view", files |-> <<>>, title |-> <<>>, patient |-> "",
   date |-> FirstDay, query |-> <<>>, k |-> 1, pid_filter |-> "",
   date_from |-> None, date_to |-> None]

IndexReq(files, title, patient, date) ==
  [NoReq EXCEPT !.kind = "index", !.files = files, !.title = title,
                !.patient = patient, !.date = date]

SearchReq(query, k, pid_filter, date_from, date_to) ==
  [NoReq EXCEPT !.kind = "search", !.query = query, !.k = k,
                !.pid_filter = pid_filter, !.date_from = date_from,
                !.date_to = date_to]

RebuildReq == [NoReq EXCEPT !.kind = "rebuild"]

\* ------------------------------------------------------------ input domains
\* The uploads a submission is made of: [name, raw].  Two uploads share a
\* name and differ in their bytes.
Uploads ==
  {[name |-> "r.txt", raw |-> "b1"], [name |-> "r.txt", raw |-> "b2"]}

\* raw.decode(errors="ignore") / extract_text_from_pdf(raw): the text of
\* an upload's bytes.
Decode(raw) ==
  CASE raw = "b1" -> <<"fracture">>
    [] raw = "b2" -> <<"glucose">>
    [] OTHER -> <<>>

\* fname.lower().endswith(".pdf"), line 147.
IsPdf(fname) == fname = "s.pdf"

Batches == UNION {[1..n -> Uploads] : n \in 0..MaxBatch}

\* The runs a session of the full specification starts.
Requests ==
  {IndexReq(f, <<"Fractures">>, "P1", FirstDay) : f \in Batches}
    \cup {IndexReq(f, <<>>, "P1", FirstDay) : f \in [1..1 -> Uploads]}
    \cup {RebuildReq}
    \cup {SearchReq(q, 1, "", None, None) : q \in {<<SP>>, <<"Fractures">>}}

\* --------------------------------------------------------------- the script
\* The server starts with no run in progress.
Started ==
  /\ lockFile = FALSE
  /\ lockHeld = FALSE
  /\ tmpDir = FALSE
  /\ clock = 0
  /\ pc = [s \in Sessions |-> "idle"]
  /\ req = [s \in Sessions |-> NoReq]
  /\ caller = [s \in Sessions |-> "main"]
  /\ idx = [s \in Sessions |-> 1]
  /\ writer = [s \in Sessions |-> ClosedWriter]
  /\ listed = [s \in Sessions |-> {}]
  /\ outcome = [s \in Sessions |-> "none"]
  /\ raisedAt = [s \in Sessions |-> "nowhere"]
  /\ hits = [s \in Sessions |-> NoHits]
  /\ clicks = 0

\* On start the index directory is absent, holds an empty index, or holds
\* index files that cannot be read.
Init ==
  /\ \/ dirExists = FALSE /\ toc = "none"
     \/ dirExists = TRUE /\ toc \in {"ok", "corrupt"}
  /\ committed = <<>>
  /\ rawFiles = {}
  /\ Started

\* datetime.utcnow() (line 161): the value read last or a later one; two
\* reads within one tick of the clock return the same value.
utcnow == {t \in {clock, clock + 1} : t <= MaxClock}

\* A click: the script is run again with the widgets' values r.
StartRun(s, reqs) ==
  /\ pc[s] = "idle"
  /\ clicks < MaxClicks
  /\ clicks' = clicks + 1
  /\ \E r \in reqs :
       /\ r.kind = "index" => Len(Visible) + Len(r.files) <= MaxDocs
       /\ req' = [req EXCEPT ![s] = r]
  /\ pc' = [pc EXCEPT ![s] = "ei_exists"]
  /\ UNCHANGED <<fs, rawFiles, clock, caller, idx, writer, listed, outcome,
                 raisedAt, hits>>

\* An exception no handler of the script catches: the run ends there.  A
\* writer the run had opened is never committed or cancelled; what the
\* raising call leaves of its lock and temporary storage is the caller's.
Raise(s) ==
  /\ pc' = [pc EXCEPT ![s] = "raised"]
  /\ outcome' = [outcome EXCEPT ![s] = "error"]
  /\ raisedAt' = [raisedAt EXCEPT ![s] =
                    IF caller[s] = "rebuild" THEN "rebuild" ELSE pc[s]]
  /\ writer' = [writer EXCEPT ![s] = ClosedWriter]
  /\ caller' = [caller EXCEPT ![s] = "main"]
  /\ idx' = [idx EXCEPT ![s] = 1]
  /\ listed' = [listed EXCEPT ![s] = {}]
  /\ UNCHANGED <<req, hits, clicks>>

\* Where ensure_index returns to: the handlers (line 123) or line 187.
Return(s) ==
  /\ pc' = [pc EXCEPT ![s] = IF caller[s] = "rebuild" THEN "rb_done" ELSE "handler"]
  /\ UNCHANGED <<req, caller, idx, writer, listed, outcome, raisedAt, hits, clicks>>

\* The run is over: the widgets' values and the page are those of the
\* next run from here on.
EndRun(s) ==
  /\ pc' = [pc EXCEPT ![s] = "idle"]
  /\ req' = [req EXCEPT ![s] = NoReq]
  /\ outcome' = [outcome EXCEPT ![s] = "none"]
  /\ raisedAt' = [raisedAt EXCEPT ![s] = "nowhere"]
  /\ hits' = [hits EXCEPT ![s] = NoHits]
  /\ UNCHANGED <<caller, idx, writer, listed, clicks>>

Goto(s, label) ==
  /\ pc' = [pc EXCEPT ![s] = label]
  /\ UNCHANGED <<req, caller, idx, writer, listed, outcome, raisedAt, hits, clicks>>

\* The entries os.listdir(INDEX_DIR) returns.
Entries ==
  (IF toc # "none" THEN {"index"} ELSE {})
    \cup (IF lockFile THEN {"lock"} ELSE {})
    \cup (IF tmpDir THEN {"tmp"} ELSE {})

\* os.remove of the index files: open writers lose the segments they read.
RemoveIndexFiles ==
  /\ toc' = "none"
  /\ committed' = <<>>
  /\ UNCHANGED <<dirExists, lockFile, lockHeld, tmpDir>>

\* os.remove of the lock file: a lock held on it no longer excludes anyone.
RemoveLockFile ==
  /\ lockFile' = FALSE
  /\ lockHeld' = FALSE
  /\ UNCHANGED <<dirExists, toc, committed, tmpDir>>

\* Writers that were open when the index files or the lock file went.
AfterRemove(w, e) ==
  [t \in Sessions |->
     IF ~w[t].open THEN w[t]
     ELSE IF e = "index" THEN [w[t] EXCEPT !.baseGone = TRUE]
     ELSE [w[t] EXCEPT !.lockCurrent = FALSE]]

\* One os.remove(os.path.join(INDEX_DIR, f)) of a removal loop (lines 70,
\* 184), then the statement after the loop once the listing is walked.
\* os.remove raises on an entry that is gone and on a directory.
RemoveOne(s, after) ==
  \E e \in listed[s] :
    IF e \notin Entries \/ e = "tmp"
    THEN Raise(s) /\ UNCHANGED <<fs, rawFiles, clock>>
    ELSE /\ IF e = "index" THEN RemoveIndexFiles ELSE RemoveLockFile
         /\ writer' = AfterRemove(writer, e)
         /\ listed' = [listed EXCEPT ![s] = @ \ {e}]
         /\ pc' = [pc EXCEPT ![s] = IF listed[s] = {e} THEN after ELSE @]
         /\ UNCHANGED <<rawFiles, clock, req, caller, idx, outcome, raisedAt, hits, clicks>>

\* os.listdir(INDEX_DIR) of a removal loop (lines 69, 183).
Listdir(s, loop, after) ==
  IF ~dirExists
  THEN Raise(s) /\ UNCHANGED <<fs, rawFiles, clock>>
  ELSE /\ listed' = [listed EXCEPT ![s] = Entries]
       /\ pc' = [pc EXCEPT ![s] = IF Entries = {} THEN after ELSE loop]
       /\ UNCHANGED <<fs, rawFiles, clock, req, caller, idx, writer, outcome,
                      raisedAt, hits, clicks>>

\* ensure_index, line 61: if not os.path.exists(INDEX_DIR).
EnsureExists(s) ==
  /\ pc[s] = "ei_exists"
  /\ Goto(s, IF dirExists THEN "ei_open" ELSE "ei_mkdir")
  /\ UNCHANGED <<fs, rawFiles, clock>>

\* ensure_index, line 62: os.mkdir(INDEX_DIR) raises FileExistsError when
\* the directory has appeared since line 61.
EnsureMkdir(s) ==
  /\ pc[s] = "ei_mkdir"
  /\ IF dirExists
     THEN Raise(s) /\ UNCHANGED <<fs, rawFiles, clock>>
     ELSE /\ dirExists' = TRUE
          /\ Goto(s, "ei_create")
          /\ UNCHANGED <<toc, committed, lockFile, lockHeld, tmpDir, rawFiles, clock>>

\* ensure_index, lines 63 and 71: index.create_in(INDEX_DIR, schema) drops
\* the index files of the directory and writes an empty index.
EnsureCreate(s) ==
  /\ pc[s] = "ei_create"
  /\ IF ~dirExists
     THEN Raise(s) /\ UNCHANGED <<fs, rawFiles, clock>>
     ELSE /\ toc' = "ok"
          /\ committed' = <<>>
          /\ writer' = AfterRemove(writer, "index")
          /\ pc' = [pc EXCEPT ![s] = IF caller[s] = "rebuild" THEN "rb_done" ELSE "handler"]
          /\ UNCHANGED <<dirExists, lockFile, lockHeld, tmpDir, rawFiles, clock,
                         req, caller, idx, listed, outcome, raisedAt, hits, clicks>>

\* ensure_index, lines 65-67: index.open_dir(INDEX_DIR); any exception is
\* taken as corruption.
EnsureOpen(s) ==
  /\ pc[s] = "ei_open"
  /\ IF dirExists /\ toc = "ok" THEN Return(s) ELSE Goto(s, "ei_listdir")
  /\ UNCHANGED <<fs, rawFiles, clock>>

\* ensure_index, line 69.
EnsureListdir(s) ==
  /\ pc[s] = "ei_listdir"
  /\ Listdir(s, "ei_remove", "ei_create")

\* ensure_index, line 70.
EnsureRemove(s) ==
  /\ pc[s] = "ei_remove"
  /\ RemoveOne(s, "ei_create")

\* ----------------------------------------------------------- index handler
\* A form that warns about missing files only.
IndexRejectedFilesOnly(r) == r.files = <<>>

\* Lines 136-141: the two warnings of the upload form.
IndexRejected(r) == r.files = <<>> \/ r.title = <<>>

IndexValidate(s) ==
  /\ pc[s] = "handler" /\ req[s].kind = "index"
  /\ IF IndexRejected(req[s])
     THEN /\ pc' = [pc EXCEPT ![s] = "listing"]
          /\ outcome' = [outcome EXCEPT ![s] = "warning"]
          /\ UNCHANGED <<req, caller, idx, writer, listed, raisedAt, hits, clicks>>
     ELSE Goto(s, "ix_writer")
  /\ UNCHANGED <<fs, rawFiles, clock>>

\* Line 142, writer = ix.writer(): Whoosh takes the lock file of the index
\* directory without waiting (LockError when it is held), reads the
\* committed segments and creates the writer's temporary storage.
OpenWriter(s) ==
  /\ pc[s] = "ix_writer"
  /\ IF ~dirExists \/ lockHeld
     THEN Raise(s) /\ UNCHANGED <<fs, rawFiles, clock>>
     ELSE IF toc # "ok"
     THEN /\ Raise(s)
          /\ lockFile' = TRUE
          /\ lockHeld' = TRUE
          /\ UNCHANGED <<dirExists, toc, committed, tmpDir, rawFiles, clock>>
     ELSE /\ lockFile' = TRUE
          /\ lockHeld' = TRUE
          /\ tmpDir' = TRUE
          /\ writer' = [writer EXCEPT ![s] =
                          [ClosedWriter EXCEPT !.open = TRUE, !.base = committed,
                                               !.lockCurrent = TRUE]]
          /\ pc' = [pc EXCEPT ![s] = "ix_file"]
          /\ UNCHANGED <<dirExists, toc, committed, rawFiles, clock, req, caller,
                         idx, listed, outcome, raisedAt, hits, clicks>>

\* Lines 161-162: doc_id = f"{fname}_{ts}".
DocId(fname, ts) == <<fname, ts>>

\* Line 164: the raw file's name, doc_id + "_" + fname.
RawName(doc_id, fname) == doc_id \o <<fname>>

\* save_raw_file (lines 84-91): open(path, "wb") replaces a file of the
\* same name.
save_raw_file(files, content_bytes, filename) ==
  {f \in files : f.name # filename} \cup {[name |-> filename, raw |-> content_bytes]}

\* The document of lines 167-173; raw remembers the upload it was made of.
Document(uf, content, r, ts) ==
  [doc_id |-> DocId(uf.name, ts), title |-> r.title, patient_id |-> r.patient,
   date |-> r.date, content |-> content, raw |-> uf.raw]

\* One pass of the loop of lines 143-176.  The text of a PDF may fail to
\* extract (content ""); add_document may raise, which the loop reports
\* and survives.
IndexFile(s) ==
  /\ pc[s] = "ix_file"
  /\ LET uf == req[s].files[idx[s]]
     IN \E content \in {Decode(uf.raw)} \cup (IF IsPdf(uf.name) THEN {<<>>} ELSE {}),
           ts \in utcnow, added \in BOOLEAN :
          /\ clock' = ts
          /\ rawFiles' = save_raw_file(rawFiles, uf.raw,
                                       RawName(DocId(uf.name, ts), uf.name))
          /\ writer' = [writer EXCEPT ![s] =
               IF added
               THEN [@ EXCEPT !.pending = Append(@, Document(uf, content, req[s], ts))]
               ELSE [@ EXCEPT !.addFailed = TRUE]]
          /\ idx' = [idx EXCEPT ![s] = @ + 1]
          /\ pc' = [pc EXCEPT ![s] =
               IF idx[s] = Len(req[s].files) THEN "ix_commit" ELSE @]
          /\ UNCHANGED <<fs, req, caller, listed, outcome, raisedAt, hits, clicks>>

\* What writer.commit() leaves on disk: the segments the writer read when
\* it was opened plus its own.  When the index files it read have been
\* removed under it, the new table of contents names segments that are
\* gone.
CommitToc(w) == IF w.baseGone /\ w.base # <<>> THEN "corrupt" ELSE "ok"

CommitDocs(w) == IF CommitToc(w) = "ok" THEN w.base \o w.pending ELSE <<>>

\* Line 177, writer.commit(): writes the new table of contents and then,
\* whether or not that worked, removes the temporary storage and releases
\* the lock.  When the storage fails the index is left as it was.  When
\* the temporary storage is already gone the clean-up itself raises and
\* the lock is not released.
Commit(s) ==
  /\ pc[s] = "ix_commit"
  /\ \E stored \in BOOLEAN :
       IF ~tmpDir \/ ~dirExists
       THEN Raise(s) /\ UNCHANGED <<fs, rawFiles, clock>>
       ELSE IF ~stored
       THEN /\ Raise(s)
            /\ tmpDir' = FALSE
            /\ lockHeld' = IF writer[s].lockCurrent THEN FALSE ELSE lockHeld
            /\ UNCHANGED <<dirExists, toc, committed, lockFile, rawFiles, clock>>
       ELSE /\ toc' = CommitToc(writer[s])
            /\ committed' = CommitDocs(writer[s])
            /\ tmpDir' = FALSE
            /\ lockHeld' = IF writer[s].lockCurrent THEN FALSE ELSE lockHeld
            /\ writer' = [writer EXCEPT ![s] = ClosedWriter]
            /\ pc' = [pc EXCEPT ![s] = "listing"]
            /\ outcome' = [outcome EXCEPT ![s] = "ok"]
            /\ idx' = [idx EXCEPT ![s] = 1]
            /\ UNCHANGED <<dirExists, lockFile, rawFiles, clock, req, caller,
                           listed, raisedAt, hits, clicks>>

\* --------------------------------------------------------- rebuild handler
\* Line 182: if os.path.exists(INDEX_DIR).
RebuildExists(s) ==
  /\ pc[s] = "handler" /\ req[s].kind = "rebuild"
  /\ IF dirExists
     THEN Goto(s, "rb_listdir")
     ELSE /\ pc' = [pc EXCEPT ![s] = "ei_exists"]
          /\ caller' = [caller EXCEPT ![s] = "rebuild"]
          /\ UNCHANGED <<req, idx, writer, listed, outcome, raisedAt, hits, clicks>>
  /\ UNCHANGED <<fs, rawFiles, clock>>

\* Line 183.
RebuildListdir(s) ==
  /\ pc[s] = "rb_listdir"
  /\ Listdir(s, "rb_remove", "rb_rmdir")

\* Line 184.
RebuildRemove(s) ==
  /\ pc[s] = "rb_remove"
  /\ RemoveOne(s, "rb_rmdir")

\* Line 185, os.rmdir(INDEX_DIR): raises unless the directory is there and
\* empty.  Line 186 then calls ensure_index.
RebuildRmdir(s) ==
  /\ pc[s] = "rb_rmdir"
  /\ IF ~dirExists \/ Entries # {}
     THEN Raise(s) /\ UNCHANGED <<fs, rawFiles, clock>>
     ELSE /\ dirExists' = FALSE
          /\ pc' = [pc EXCEPT ![s] = "ei_exists"]
          /\ caller' = [caller EXCEPT ![s] = "rebuild"]
          /\ UNCHANGED <<toc, committed, lockFile, lockHeld, tmpDir, rawFiles, clock,
                         req, idx, writer, listed, outcome, raisedAt, hits, clicks>>

\* Line 187: st.success("Index rebuilt (empty).").
RebuildDone(s) ==
  /\ pc[s] = "rb_done"
  /\ pc' = [pc EXCEPT ![s] = "listing"]
  /\ outcome' = [outcome EXCEPT ![s] = "ok"]
  /\ caller' = [caller EXCEPT ![s] = "main"]
  /\ UNCHANGED <<fs, rawFiles, clock, req, idx, writer, listed, raisedAt, hits, clicks>>

\* ---------------------------------------------------------- search handler
\* Line 203: if not query_text.strip().
SearchRejected(r) == Strip(r.query) = <<>>

\* Lines 202-248.  ix.searcher() raises when the index cannot be read.
Search(s) ==
  /\ pc[s] = "handler" /\ req[s].kind = "search"
  /\ IF SearchRejected(req[s])
     THEN /\ pc' = [pc EXCEPT ![s] = "listing"]
          /\ outcome' = [outcome EXCEPT ![s] = "warning"]
          /\ UNCHANGED <<req, caller, idx, writer, listed, raisedAt, hits, clicks>>
     ELSE IF ~dirExists \/ toc # "ok"
     THEN Raise(s)
     ELSE \E results \in SearchResults(Parse(req[s].query), req[s].k, committed) :
            /\ hits' = [hits EXCEPT ![s] =
                 [docs |-> committed, results |-> results,
                  filtered |-> PostFilter(results, committed, req[s].pid_filter,
                                          FromDate(req[s].date_from), req[s].date_to)]]
            /\ pc' = [pc EXCEPT ![s] = "listing"]
            /\ outcome' = [outcome EXCEPT ![s] = "ok"]
            /\ UNCHANGED <<req, caller, idx, writer, listed, raisedAt, clicks>>
  /\ UNCHANGED <<fs, rawFiles, clock>>

\* Lines 238-243: the saved files offered for download with a hit.
StartsWith(name, prefix) ==
  Len(name) >= Len(prefix) /\ SubSeq(name, 1, Len(prefix)) = prefix

Candidates(doc_id) == {f \in rawFiles : StartsWith(f.name, doc_id)}

\* Lines 253-269: the table of indexed documents; its own try/except
\* reports a failure to read the index.
Listing(s) ==
  /\ pc[s] = "listing"
  /\ EndRun(s)
  /\ UNCHANGED <<fs, rawFiles, clock>>

\* The run's exception is shown in the page; nothing after the raising
\* line has run.
Traceback(s) ==
  /\ pc[s] = "raised"
  /\ EndRun(s)
  /\ UNCHANGED <<fs, rawFiles, clock>>

\* ---------------------------------------------------------- specifications
Step(s, reqs) ==
  \/ StartRun(s, reqs)
  \/ EnsureExists(s)
  \/ EnsureMkdir(s)
  \/ EnsureCreate(s)
  \/ EnsureOpen(s)
  \/ EnsureListdir(s)
  \/ EnsureRemove(s)
  \/ IndexValidate(s)
  \/ OpenWriter(s)
  \/ IndexFile(s)
  \/ Commit(s)
  \/ RebuildExists(s)
  \/ RebuildListdir(s)
  \/ RebuildRemove(s)
  \/ RebuildRmdir(s)
  \/ RebuildDone(s)
  \/ Search(s)
  \/ Listing(s)
  \/ Traceback(s)

Next == \E s \in Sessions : Step(s, Requests)

Spec == Init /\ [][Next]_vars

\* One session alone: the script's runs one after the other.
NextSolo == \E s \in {1} : Step(s, Requests)

SpecSolo == Init /\ [][NextSolo]_vars

\* ------------------------------------------------- search over drawn corpora
\* The document the upload loop makes of upload uf as the n-th of a corpus.
CorpusDoc(n, uf, title, patient, date) ==
  Document(uf, Decode(uf.raw), IndexReq(<<uf>>, title, patient, date), n)

\* The raw files the upload loop has saved for the documents of a corpus.
SavedFor(docs) ==
  {[name |-> RawName(docs[n].doc_id, docs[n].doc_id[1]), raw |-> docs[n].raw] :
     n \in 1..Len(docs)}

\* A committed index holding one of the corpora.
InitCorpus(corpora) ==
  /\ dirExists = TRUE
  /\ toc = "ok"
  /\ committed \in corpora
  /\ rawFiles = SavedFor(committed)
  /\ Started

\* The runs of a searching session.
SearchStep(s, reqs) ==
  \/ StartRun(s, reqs)
  \/ EnsureExists(s)
  \/ EnsureOpen(s)
  \/ Search(s)
  \/ Listing(s)

\* Titles the upload form is given: a word, a stop word, a blank, two words.
TitleInputs ==
  {<<"Fractures">>, <<"the">>, <<SP>>, <<"fracture", SP, "glucose">>}

TitleDocs(n) ==
  {CorpusDoc(n, uf, t, "P1", FirstDay) : uf \in Uploads, t \in TitleInputs}

TitleCorpora ==
  UNION {{c \in [1..n -> UNION {TitleDocs(i) : i \in 1..n}] :
            \A i \in 1..n : c[i] \in TitleDocs(i)} : n \in 1..MaxCorpus}

TitleRequests ==
  {SearchReq(q, k, "", None, None) :
     q \in TitleInputs \cup {<<"P1">>}, k \in 1..MaxLimit}

NextTitle == \E s \in {1} : SearchStep(s, TitleRequests)

SpecTitle == InitCorpus(TitleCorpora) /\ [][NextTitle]_vars

\* Patient ids and dates the upload form is given.
PatientInputs == {"P1", "p1", "P2"}

FilterDocs(n) ==
  {CorpusDoc(n, [name |-> "r.txt", raw |-> "b1"], <<"Fractures">>, p, d) :
     p \in PatientInputs, d \in Days}

FilterCorpora ==
  UNION {{c \in [1..n -> UNION {FilterDocs(i) : i \in 1..n}] :
            \A i \in 1..n : c[i] \in FilterDocs(i)} : n \in 1..MaxCorpus}

\* The search form's filters: a patient id or "", a from date (possibly
\* the sentinel) or None, a to date or None.
FilterRequests ==
  {SearchReq(<<"fracture">>, k, p, f, t) :
     k \in 1..MaxLimit,
     p \in {"", "p1", "P2"},
     f \in {None, Some(SentinelDay)} \cup {Some(d) : d \in Days},
     t \in {None} \cup {Some(d) : d \in Days}}

NextFilter == \E s \in {1} : SearchStep(s, FilterRequests)

SpecFilter == InitCorpus(FilterCorpora) /\ [][NextFilter]_vars

\* ------------------------------------------------------------------ claims
\* Session s took the step.
Stepped(s) ==
  pc'[s] # pc[s] \/ listed'[s] # listed[s] \/ idx'[s] # idx[s]

EnsurePcs == {"ei_exists", "ei_mkdir", "ei_create", "ei_open", "ei_listdir", "ei_remove"}

\* Session s is inside the rebuild handler (lines 180-187).
InRebuild(s) ==
  \/ pc[s] = "handler" /\ req[s].kind = "rebuild"
  \/ pc[s] \in {"rb_listdir", "rb_remove", "rb_rmdir"}
  \/ pc[s] \in EnsurePcs /\ caller[s] = "rebuild"

\* C1: a batch indexed in one submission is atomic.  When the submission's
\* commit (line 177) returns or raises, either every file of the batch has
\* become visible behind what was visible before, or an add or the commit
\* failed and what is visible is what was visible before.
C1_BatchAtomic ==
  [][\A s \in Sessions :
       (Stepped(s) /\ pc[s] = "ix_commit") =>
         \/ /\ ~writer[s].addFailed
            /\ pc'[s] # "raised"
            /\ Len(writer[s].pending) = Len(req[s].files)
            /\ Visible' = Visible \o writer[s].pending
         \/ /\ writer[s].addFailed \/ pc'[s] = "raised"
            /\ Visible' = Visible]_vars

\* C2: writers are serialised and rebuild is one of them.  No two sessions
\* hold an open writer at once; a rebuild changes the index directory only
\* while no other session holds an open writer; and no writer is opened
\* while another session is inside a rebuild.
C2_WritersSerialized ==
  [][\A s, t \in Sessions :
       s # t =>
         /\ ~(writer'[s].open /\ writer'[t].open)
         /\ (Stepped(s) /\ InRebuild(s) /\ fs' # fs) => ~writer[t].open
         /\ (Stepped(s) /\ pc[s] = "ix_writer" /\ writer'[s].open)
              => ~(InRebuild(t) /\ pc[t] # "handler")]_vars

\* C3: no two documents of the index have the same doc_id.
C3_DocIdsUnique ==
  \A i, j \in 1..Len(Visible) : i # j => Visible[i].doc_id # Visible[j].doc_id

HasIndexedWord(title) == \E i \in DOMAIN title : title[i] \notin StopWords \cup {SP}

\* The documents of docs that share a word, up to case and stemming, with
\* the query, in the title or the content, or whose patient id is a word
\* of the query.
SharesWord(query, d) ==
  \/ \E i \in DOMAIN query, j \in DOMAIN d.title :
       query[i] \notin StopWords \cup {SP} /\ Stem(Lower(query[i])) = Stem(Lower(d.title[j]))
  \/ \E i \in DOMAIN query, j \in DOMAIN d.content :
       query[i] \notin StopWords \cup {SP} /\ Stem(Lower(query[i])) = Stem(Lower(d.content[j]))
  \/ \E i \in DOMAIN query : query[i] = d.patient_id

EqualIgnoringCase(a, b) ==
  a = b \/ {a, b} = {"P1", "p1"} \/ {a, b} = {"P2", "p2"}

\* C5: with a patient id X to filter by and no date bounds, the filtered
\* list is the ranked result of the same search with exactly the hits
\* whose patient id differs from X, case ignored, removed: same order,
\* nothing added.
C5_FilterIsSubsequence ==
  \A s \in Sessions :
    (pc[s] = "listing" /\ req[s].kind = "search" /\ outcome[s] = "ok"
       /\ req[s].pid_filter # "" /\ req[s].date_from = None /\ req[s].date_to = None)
      => hits[s].filtered =
           SelectSeq(hits[s].results,
                     LAMBDA n : EqualIgnoringCase(hits[s].docs[n].patient_id,
                                                  req[s].pid_filter))

\* C5's case: a filter that differs in case from one hit's patient id and
\* in more from another's has kept the first and dropped the second.
C5_Witness ==
  \E s \in Sessions :
    /\ pc[s] = "listing" /\ req[s].pid_filter = "p1"
    /\ Len(hits[s].results) = 2 /\ Len(hits[s].filtered) = 1
    /\ hits[s].docs[hits[s].filtered[1]].patient_id = "P1"
    /\ hits[s].filtered[1] = hits[s].results[2]

C7_RebuildIdempotent ==
  [][\A s \in Sessions :
       (Stepped(s) /\ InRebuild(s)) =>
         /\ pc'[s] # "raised"
         /\ pc'[s] = "rb_done" => (dirExists' /\ toc' = "ok" /\ committed' = <<>>)]_vars

\* A request the claim calls invalid: an index request with an empty
\* title, a search with an empty or blank query text.
InvalidRequest(r) ==
  \/ r.kind = "index" /\ r.title = <<>>
  \/ r.kind = "search" /\ \A i \in DOMAIN r.query : r.query[i] = SP

\* C8: the handler of an invalid request reports it and changes nothing.
\* Its first step ends in the warning, and no step of the run after
\* ensure_index changes the indexed documents or the saved raw files.
C8_RejectedChangesNothing ==
  [][\A s \in Sessions :
       (Stepped(s) /\ InvalidRequest(req[s]) /\ pc[s] \notin EnsurePcs \cup {"idle"}) =>
         /\ pc[s] = "handler" => (outcome'[s] = "warning" /\ pc'[s] = "listing")
         /\ Visible' = Visible
         /\ committed' = committed
         /\ rawFiles' = rawFiles]_vars

\* C8's case: an index request with files and an empty title was turned
\* away while the index held documents and raw files were saved.
C8_Witness ==
  \E s \in Sessions :
    /\ pc[s] = "listing" /\ outcome[s] = "warning"
    /\ req[s].kind = "index" /\ req[s].title = <<>> /\ req[s].files # <<>>
    /\ Visible # <<>> /\ rawFiles # {}

\* C9: ensure_index never fails and discards only what cannot be read.  No
\* step of it raises, a readable index keeps its documents through every
\* step, and it returns with a readable index.
C9_EnsureIndexRecovers ==
  [][\A s \in Sessions :
       (Stepped(s) /\ pc[s] \in EnsurePcs) =>
         /\ pc'[s] # "raised"
         /\ (dirExists /\ toc = "ok") => (toc' = "ok" /\ committed' = committed)
         /\ pc'[s] \in {"handler", "rb_done"} => (dirExists' /\ toc' = "ok")]_vars

\* C10: every document of the index has the bytes it was made of saved
\* under a name that starts with its doc_id, so the download lookup of
\* lines 238-243 finds them.
C10_RawBytesSaved ==
  \A n \in 1..Len(Visible) :
    \E f \in Candidates(Visible[n].doc_id) : f.raw = Visible[n].raw

=============================================================================
